---------------------------- MODULE Spec2Model ----------------------------
(***************************************************************************)
(* The Hangman round state machine of the HangmanGame component.           *)
(*                                                                         *)
(* State is the component's useState cells.  One action per callback:      *)
(* the mount effect, the four event handlers onGuess, reset, nextWord and  *)
(* togglePause, and the status effect that derives "won"/"lost".           *)
(*                                                                         *)
(* A handler runs against the state of the last committed render; its      *)
(* updates are committed together, and the status effect runs on that      *)
(* commit when one of its dependencies changed.  The setStatus the effect  *)
(* issues is not part of that commit: React commits it in a later render   *)
(* pass (StatusUpdate).  Until then the handlers of the committed render,  *)
(* which closed over status "playing", stay attached, so an input event    *)
(* may be handled in between.                                              *)
(*                                                                         *)
(* Strings are sequences of one-character strings, so that split, every,   *)
(* includes and indexOf are computed character by character.               *)
(***************************************************************************)
EXTENDS Integers, Sequences, FiniteSets

VARIABLES targetWord, guessed, wrong, status, isPaused, showSidebar,
          levelIndex, pendingStatus, lastEvent

vars == <<targetWord, guessed, wrong, status, isPaused, showSidebar,
          levelIndex, pendingStatus, lastEvent>>

(* targetWord .. levelIndex are the component's useState cells.             *)
(* pendingStatus is the setStatus call of the status effect that React has  *)
(* queued and not yet committed ("none": nothing queued).  lastEvent is the *)
(* observer's record of the callback that ran last: its name and the status *)
(* it found.                                                                *)
event(op) == [op |-> op, from |-> status]

---------------------------------------------------------------------------
(* Program constants *)

WORDS ==
  << <<"J","A","V","A","S","C","R","I","P","T">>,
     <<"R","E","A","C","T">>,
     <<"H","A","N","G","M","A","N">>,
     <<"D","E","V","E","L","O","P","E","R">>,
     <<"P","R","O","G","R","A","M">>,
     <<"C","O","M","P","U","T","E","R">>,
     <<"A","L","G","O","R","I","T","H","M">>,
     <<"F","U","N","C","T","I","O","N">>,
     <<"V","A","R","I","A","B","L","E">>,
     <<"C","O","M","P","I","L","E","R">> >>

ALPHABET ==
  <<"A","B","C","D","E","F","G","H","I","J","K","L","M",
    "N","O","P","Q","R","S","T","U","V","W","X","Y","Z">>

MAX_WRONG == 6

GameStatus == {"start", "playing", "won", "lost"}

(* Bound: how many letters absent from the target word the player has to   *)
(* choose from in one round (beyond the letters of the word itself).       *)
MaxAbsent == 7

---------------------------------------------------------------------------
(* Pure helpers *)

(* word.split("") as a set: the distinct characters of a string *)
Chars(word) == { word[i] : i \in 1..Len(word) }

(* includes that looks at the first character only *)
includes_firstOnly(word, letter) == Len(word) > 0 /\ word[1] = letter

(* targetWord.includes(letter) *)
includes(word, letter) == \E i \in 1..Len(word) : word[i] = letter

(* indexOf returning the 1-based position *)
indexOf_oneBased(word) ==
  IF \E i \in 1..Len(WORDS) : WORDS[i] = word
  THEN CHOOSE i \in 1..Len(WORDS) :
         WORDS[i] = word /\ \A j \in 1..(i-1) : WORDS[j] # word
  ELSE -1

(* WORDS.indexOf(word): first 0-based position, -1 if absent *)
indexOf(word) ==
  IF \E i \in 1..Len(WORDS) : WORDS[i] = word
  THEN (CHOOSE i \in 1..Len(WORDS) :
          WORDS[i] = word /\ \A j \in 1..(i-1) : WORDS[j] # word) - 1
  ELSE -1

(* pickWord reading one position too far *)
pickWord_offByOne(idx) == WORDS[((idx + 1) % Len(WORDS)) + 1]

(* pickWord(idx) with a numeric argument: WORDS[idx % WORDS.length] *)
pickWord(idx) == WORDS[(idx % Len(WORDS)) + 1]

(* nextWord without the wrap-around *)
nextIndex_noWrap(i) == i + 1

(* nextIndex of nextWord *)
nextIndex(i) == (i + 1) % Len(WORDS)

(* hasWon of the status effect: targetWord.split("").every(ch => guessed.has(ch)) *)
hasWon(word, g) == \A i \in 1..Len(word) : word[i] \in g

(* !targetWord : the empty string is falsy *)
noWord(word) == Len(word) = 0

(* The characters display shows: a guessed character as itself, any other  *)
(* as an underscore (the map of display).                                  *)
shown(word, g) == [i \in 1..Len(word) |-> IF word[i] \in g THEN word[i] ELSE "_"]

(* Array.prototype.join(sep) on one-character strings *)
RECURSIVE join(_, _)
join(chars, sep) ==
  IF Len(chars) = 0 THEN << >>
  ELSE IF Len(chars) = 1 THEN <<chars[1]>>
  ELSE <<chars[1], sep>> \o join(Tail(chars), sep)

(* display joined without the separator *)
display_noSeparator(word, g) == IF noWord(word) THEN << >> ELSE shown(word, g)

(* The display string of the word board *)
display(word, g) == IF noWord(word) THEN << >> ELSE join(shown(word, g), " ")

(* the status test left out *)
notPlaying_never(s) == FALSE

(* status !== "playing", the test shared by the status effect and onGuess *)
notPlaying(s) == s # "playing"

(* The status effect run on a committed render: the status it passes to     *)
(* setStatus, "none" when it returns without a call.                        *)
statusEffect(word, g, w, s) ==
  IF noWord(word) \/ notPlaying(s) THEN "none"
  ELSE IF hasWon(word, g) THEN "won"
  ELSE IF w >= MAX_WRONG THEN "lost"
  ELSE "none"

(* The queued setStatus after the effect ran again: a new call is queued    *)
(* behind the earlier one and decides the status that will be committed.    *)
queued(earlier, call) == IF call # "none" THEN call ELSE earlier

---------------------------------------------------------------------------
(* The letters offered to onGuess.  The code only asks whether a letter is  *)
(* in the word and whether it is in the guessed set, so letters absent from *)
(* the word are interchangeable: they are taken in ALPHABET order, at most  *)
(* MaxAbsent of them per round.                                             *)

absentGuessed == guessed \ Chars(targetWord)

firstAbsent ==
  LET free(i) == ALPHABET[i] \notin Chars(targetWord) /\ ALPHABET[i] \notin guessed
      k == CHOOSE i \in 1..Len(ALPHABET) :
             free(i) /\ \A j \in 1..(i-1) : ~free(j)
  IN ALPHABET[k]

GuessInputs ==
  Chars(targetWord) \cup guessed \cup
    (IF Cardinality(absentGuessed) < MaxAbsent THEN {firstAbsent} ELSE {})

---------------------------------------------------------------------------
Init ==
  /\ targetWord = << >>
  /\ guessed = {}
  /\ wrong = 0
  /\ status = "start"
  /\ isPaused = FALSE
  /\ showSidebar = FALSE
  /\ levelIndex = 0
  /\ pendingStatus = "none"
  /\ lastEvent = [op |-> "init", from |-> "start"]

(* The mount effect: a random word and its level index.  The status effect *)
(* of the first render ran on the empty targetWord and returned; it runs    *)
(* again on the commit of these updates.                                    *)
Mount ==
  /\ status = "start"
  /\ \E r \in 0..(Len(WORDS) - 1) :
       LET initial == WORDS[r + 1]
           i == indexOf(initial)
       IN /\ targetWord' = initial
          /\ levelIndex' = IF i >= 0 THEN i ELSE 0
  /\ guessed' = {}
  /\ wrong' = 0
  /\ status' = "playing"
  /\ pendingStatus' = statusEffect(targetWord', guessed', wrong', status')
  /\ lastEvent' = event("mount")
  /\ UNCHANGED <<isPaused, showSidebar>>

(* onGuess's first early return without the pause test, without the status test *)
guessBlocked_ignoresPause == notPlaying(status)

guessBlocked_ignoresStatus == isPaused

(* onGuess's first early return *)
guessBlocked == notPlaying(status) \/ isPaused

(* onGuess without the guessed.has(letter) return *)
guessRepeated_never(letter) == FALSE

(* onGuess's second early return *)
guessRepeated(letter) == letter \in guessed

(* onGuess building the next set from the letter alone *)
onGuess_overwrites(letter) ==
  IF guessBlocked
  THEN /\ lastEvent' = event("guessBlocked")
       /\ UNCHANGED <<targetWord, guessed, wrong, status, isPaused,
                      showSidebar, levelIndex, pendingStatus>>
  ELSE IF guessRepeated(letter)
  THEN /\ lastEvent' = event("guessRepeated")
       /\ UNCHANGED <<targetWord, guessed, wrong, status, isPaused,
                      showSidebar, levelIndex, pendingStatus>>
  ELSE /\ guessed' = {letter}
       /\ wrong' = IF ~includes(targetWord, letter) THEN wrong + 1 ELSE wrong
       /\ pendingStatus' =
            queued(pendingStatus, statusEffect(targetWord, guessed', wrong', status))
       /\ lastEvent' = event("guess")
       /\ UNCHANGED <<targetWord, status, isPaused, showSidebar, levelIndex>>

onGuess(letter) ==
  IF guessBlocked
  THEN /\ lastEvent' = event("guessBlocked")
       /\ UNCHANGED <<targetWord, guessed, wrong, status, isPaused,
                      showSidebar, levelIndex, pendingStatus>>
  ELSE IF guessRepeated(letter)
  THEN /\ lastEvent' = event("guessRepeated")
       /\ UNCHANGED <<targetWord, guessed, wrong, status, isPaused,
                      showSidebar, levelIndex, pendingStatus>>
  ELSE /\ guessed' = guessed \cup {letter}
       /\ wrong' = IF ~includes(targetWord, letter) THEN wrong + 1 ELSE wrong
       /\ pendingStatus' =
            queued(pendingStatus, statusEffect(targetWord, guessed', wrong', status))
       /\ lastEvent' = event("guess")
       /\ UNCHANGED <<targetWord, status, isPaused, showSidebar, levelIndex>>

(* reset that leaves the wrong count as it is *)
reset_keepsWrong ==
  /\ status # "start"
  /\ guessed' = {}
  /\ status' = "playing"
  /\ isPaused' = FALSE
  /\ showSidebar' = FALSE
  /\ pendingStatus' = statusEffect(targetWord, guessed', wrong, status')
  /\ lastEvent' = event("reset")
  /\ UNCHANGED <<targetWord, levelIndex, wrong>>

(* reset that leaves the pause state as it is *)
reset_keepsPause ==
  /\ status # "start"
  /\ guessed' = {}
  /\ wrong' = 0
  /\ status' = "playing"
  /\ pendingStatus' = statusEffect(targetWord, guessed', wrong', status')
  /\ lastEvent' = event("reset")
  /\ UNCHANGED <<targetWord, levelIndex, isPaused, showSidebar>>

(* The reset and nextWord controls are rendered only when the sidebar is   *)
(* shown or the status is playing/won/lost, in a commit that follows the   *)
(* mount effect.  Their setStatus("playing") is queued behind a setStatus  *)
(* of the status effect that is still pending, and so overrides it.        *)
reset ==
  /\ status # "start"
  /\ guessed' = {}
  /\ wrong' = 0
  /\ status' = "playing"
  /\ isPaused' = FALSE
  /\ showSidebar' = FALSE
  /\ pendingStatus' = statusEffect(targetWord, guessed', wrong', status')
  /\ lastEvent' = event("reset")
  /\ UNCHANGED <<targetWord, levelIndex>>

nextWord ==
  /\ status # "start"
  /\ LET n == nextIndex(levelIndex)
     IN /\ levelIndex' = n
        /\ targetWord' = pickWord(n)
  /\ guessed' = {}
  /\ wrong' = 0
  /\ status' = "playing"
  /\ isPaused' = FALSE
  /\ showSidebar' = FALSE
  /\ pendingStatus' = statusEffect(targetWord', guessed', wrong', status')
  /\ lastEvent' = event("nextWord")

(* togglePause passing the old flag to setShowSidebar *)
togglePause_sidebarOld ==
  /\ showSidebar' = isPaused
  /\ isPaused' = ~isPaused
  /\ lastEvent' = event("togglePause")
  /\ UNCHANGED <<targetWord, guessed, wrong, status, levelIndex, pendingStatus>>

(* a pause button that sets the flag instead of flipping it *)
togglePause_alwaysPauses ==
  /\ showSidebar' = TRUE
  /\ isPaused' = TRUE
  /\ lastEvent' = event("togglePause")
  /\ UNCHANGED <<targetWord, guessed, wrong, status, levelIndex, pendingStatus>>

togglePause ==
  /\ LET next == ~isPaused
     IN /\ showSidebar' = next
        /\ isPaused' = next
  /\ lastEvent' = event("togglePause")
  /\ UNCHANGED <<targetWord, guessed, wrong, status, levelIndex, pendingStatus>>

(* The render pass that commits the status effect's setStatus.  status is  *)
(* a dependency of the effect, so it runs once more, on the new status.    *)
StatusUpdate ==
  /\ pendingStatus # "none"
  /\ status' = pendingStatus
  /\ pendingStatus' = statusEffect(targetWord, guessed, wrong, status')
  /\ lastEvent' = event("statusUpdate")
  /\ UNCHANGED <<targetWord, guessed, wrong, isPaused, showSidebar, levelIndex>>

Guess == \E letter \in GuessInputs : onGuess(letter)

Next ==
  \/ Mount
  \/ Guess
  \/ reset
  \/ nextWord
  \/ togglePause
  \/ StatusUpdate

Spec == Init /\ [][Next]_vars

(* The spec's worked example: a round on REACT as the mount effect leaves   *)
(* it, played with the letters of the two example guess sequences.         *)
ReactLetters == {"R", "E", "A", "C", "T", "Q", "W", "X", "Y", "Z", "B"}

InitReact ==
  /\ targetWord = WORDS[2]
  /\ levelIndex = indexOf(WORDS[2])
  /\ guessed = {}
  /\ wrong = 0
  /\ status = "playing"
  /\ isPaused = FALSE
  /\ showSidebar = FALSE
  /\ pendingStatus = "none"
  /\ lastEvent = [op |-> "mount", from |-> "start"]

GuessReact == \E letter \in ReactLetters : onGuess(letter)

NextReact ==
  \/ GuessReact
  \/ reset
  \/ togglePause
  \/ StatusUpdate

SpecReact == InitReact /\ [][NextReact]_vars

TypeOK ==
  /\ status \in GameStatus
  /\ isPaused \in BOOLEAN
  /\ showSidebar \in BOOLEAN
  /\ pendingStatus \in {"none", "won", "lost"}
  /\ wrong \in Nat
  /\ levelIndex \in 0..(Len(WORDS) - 1)


---------------------------------------------------------------------------
(* Properties *)

Letters == Chars(ALPHABET)

allGuessed == Chars(targetWord) \subseteq guessed

(* C1: for every word of the word list, in every reachable state status    *)
(* is Won if and only if every distinct character of targetWord is in      *)
(* guessedLetters.                                                         *)
C1_WonIffAllGuessed ==
  (\E i \in 1..Len(WORDS) : targetWord = WORDS[i]) =>
     ((status = "won") <=> allGuessed)

(* C2: in every reachable state status is Lost if and only if              *)
(* wrongCount >= MAX_WRONG and some character of targetWord is not guessed. *)
C2_LostIffSixWrong ==
  (status = "lost") <=> (wrong >= MAX_WRONG /\ ~allGuessed)

(* C3: in every reachable state 0 <= wrongCount <= MAX_WRONG. *)
C3_WrongBounded == 0 <= wrong /\ wrong <= MAX_WRONG

(* C4: reset, in whatever state it is invoked, yields wrongCount = 0, an   *)
(* empty guessed set, status Playing, isPaused and showSidebar false, and  *)
(* leaves targetWord and levelIndex unchanged.                             *)
C4_Reset ==
  [][ (lastEvent'.op = "reset") =>
        /\ wrong' = 0
        /\ guessed' = {}
        /\ status' = "playing"
        /\ isPaused' = FALSE
        /\ showSidebar' = FALSE
        /\ targetWord' = targetWord
        /\ levelIndex' = levelIndex ]_vars

C4_Witness ==
  /\ lastEvent = [op |-> "reset", from |-> "lost"]
  /\ status = "playing"
  /\ targetWord = WORDS[levelIndex + 1]

(* C5: nextWord at level index i sets levelIndex to (i + 1) mod N, sets    *)
(* targetWord to the word at that index, and resets the round as reset     *)
(* does.                                                                   *)
C5_NextWord ==
  [][ (lastEvent'.op = "nextWord") =>
        /\ levelIndex' = IF levelIndex = Len(WORDS) - 1 THEN 0 ELSE levelIndex + 1
        /\ targetWord' = WORDS[levelIndex' + 1]
        /\ wrong' = 0
        /\ guessed' = {}
        /\ status' = "playing"
        /\ isPaused' = FALSE
        /\ showSidebar' = FALSE ]_vars

C5_Witness ==
  /\ lastEvent = [op |-> "nextWord", from |-> "won"]
  /\ levelIndex = 0
  /\ targetWord = WORDS[1]

(* C6: guessing a letter that is already in guessedLetters changes neither *)
(* wrongCount nor guessedLetters nor status.                               *)
C6_RepeatedGuessNoOp ==
  [][ \A letter \in guessed :
        onGuess(letter) =>
           UNCHANGED <<wrong, guessed, status>> ]_vars

C6_Witness ==
  /\ lastEvent.op = "guessRepeated"
  /\ status = "playing"
  /\ ~isPaused
  /\ wrong > 0

(* C7: while isPaused is true, a guess of any not-yet-guessed letter       *)
(* leaves guessedLetters, wrongCount and status unchanged.                 *)
C7_PausedGuessNoOp ==
  [][ \A letter \in Letters :
        (isPaused /\ letter \notin guessed /\ onGuess(letter)) =>
           UNCHANGED <<guessed, wrong, status>> ]_vars

C7_Witness ==
  /\ lastEvent.op = "guessBlocked"
  /\ isPaused
  /\ status = "playing"
  /\ guessed = {}

(* C8: when status is not Playing, a guess of any letter leaves            *)
(* guessedLetters, wrongCount, status, targetWord and levelIndex unchanged *)
(* and status stays one of the four game statuses.                         *)
C8_NotPlayingGuessIgnored ==
  [][ \A letter \in Letters :
        (status # "playing" /\ onGuess(letter)) =>
           /\ UNCHANGED <<guessed, wrong, status, targetWord, levelIndex>>
           /\ status' \in GameStatus ]_vars

C8_Witness ==
  /\ lastEvent = [op |-> "guessBlocked", from |-> "lost"]
  /\ ~isPaused
  /\ status = "lost"

(* C9: once status is Won or Lost, every step keeps it at that value,      *)
(* except reset and nextWord, which take it to Playing.                    *)
C9_TerminalUntilReset ==
  [][ (status \in {"won", "lost"}) =>
        \/ status' = status
        \/ /\ lastEvent'.op \in {"reset", "nextWord"}
           /\ status' = "playing" ]_vars

C9_Witness ==
  /\ lastEvent = [op |-> "togglePause", from |-> "won"]
  /\ status = "won"

(* C10: togglePause flips isPaused and leaves status, targetWord,          *)
(* guessedLetters, wrongCount and levelIndex unchanged; isPaused changes   *)
(* only in a togglePause, reset or nextWord step.                          *)
C10_TogglePause ==
  [][ /\ (lastEvent'.op = "togglePause") =>
           /\ isPaused' = ~isPaused
           /\ UNCHANGED <<status, targetWord, guessed, wrong, levelIndex>>
      /\ (isPaused' # isPaused) =>
           lastEvent'.op \in {"togglePause", "reset", "nextWord"} ]_vars

C10_Witness ==
  /\ lastEvent = [op |-> "togglePause", from |-> "playing"]
  /\ ~isPaused
  /\ wrong > 0

(* C11: on REACT in a fresh unpaused round, guessing R,E,A,C,T ends with   *)
(* status Won and wrongCount 0; guessing Q,W,X,Y,Z,B ends with             *)
(* wrongCount 6, status Lost and the display "_ _ _ _ _"; the display      *)
(* shows every guessed character of the word as itself and every other as  *)
(* an underscore, separated by single spaces.  (A sequence has ended when  *)
(* no setStatus of the status effect is left to commit.)                   *)
C11_ReactExample ==
  /\ (guessed = {"R", "E", "A", "C", "T"} /\ pendingStatus = "none") =>
        (status = "won" /\ wrong = 0)
  /\ (guessed = {"Q", "W", "X", "Y", "Z", "B"} /\ pendingStatus = "none") =>
        /\ wrong = 6
        /\ status = "lost"
        /\ display(targetWord, guessed) = <<"_", " ", "_", " ", "_", " ", "_", " ", "_">>
  /\ LET d == display(targetWord, guessed)
     IN /\ Len(d) = 2 * Len(targetWord) - 1
        /\ \A i \in 1..Len(targetWord) :
              /\ d[2 * i - 1] = IF targetWord[i] \in guessed THEN targetWord[i] ELSE "_"
              /\ i < Len(targetWord) => d[2 * i] = " "

C11_Witness ==
  /\ targetWord = <<"R", "E", "A", "C", "T">>
  /\ guessed = {"Q", "W", "X", "Y", "Z", "B"}
  /\ status = "lost"
  /\ wrong = 6
  /\ lastEvent.op = "statusUpdate"

(* C12: an accepted guess (status Playing, not paused, letter not yet      *)
(* guessed) adds exactly that letter to guessedLetters and increments      *)
(* wrongCount by 1 exactly when targetWord does not contain the letter;    *)
(* no other step changes wrongCount, except reset, nextWord and mount,     *)
(* which set it to 0.                                                      *)
C12_AcceptedGuess ==
  [][ /\ \A letter \in Letters :
           (status = "playing" /\ ~isPaused /\ letter \notin guessed
              /\ onGuess(letter)) =>
             /\ guessed' = guessed \cup {letter}
             /\ wrong' = IF letter \in Chars(targetWord) THEN wrong ELSE wrong + 1
      /\ (wrong' # wrong) =>
           \/ lastEvent'.op = "guess" /\ wrong' = wrong + 1
           \/ lastEvent'.op \in {"reset", "nextWord", "mount"} /\ wrong' = 0 ]_vars

C12_Witness ==
  /\ lastEvent.op = "guess"
  /\ wrong = 2
  /\ Cardinality(guessed \cap Chars(targetWord)) = 2

(* C13: no guess is accepted (changes guessedLetters or wrongCount) in a   *)
(* state where wrongCount >= MAX_WRONG or where every character of         *)
(* targetWord is already guessed.                                          *)
C13_NoGuessAfterDecision ==
  [][ (lastEvent'.op \in {"guess", "guessBlocked", "guessRepeated"}
         /\ (wrong >= MAX_WRONG \/ allGuessed)) =>
        UNCHANGED <<guessed, wrong>> ]_vars

(* C14: across every step other than reset, nextWord and mount the new     *)
(* guessedLetters is a superset of the old one; reset and nextWord set it  *)
(* to the empty set.                                                       *)
C14_GuessedMonotone ==
  [][ /\ (lastEvent'.op \notin {"reset", "nextWord", "mount"}) =>
           guessed \subseteq guessed'
      /\ (lastEvent'.op \in {"reset", "nextWord"}) => guessed' = {} ]_vars

C14_Witness ==
  /\ lastEvent.op = "guess"
  /\ Cardinality(guessed) = 4
  /\ status = "playing"

C17_WrongCountsAbsent ==
  wrong = Cardinality({ letter \in guessed : letter \notin Chars(targetWord) })

C17_Witness ==
  /\ wrong = 3
  /\ Cardinality(guessed) = 6
  /\ isPaused

(* C18: a round reaches Won or Lost after at most (number of distinct      *)
(* letters of targetWord + 5) accepted guesses: no state of a round has    *)
(* more accepted guesses than that.                                        *)
C18_GuessBudget ==
  (status # "start") =>
     Cardinality(guessed) <= Cardinality(Chars(targetWord)) + (MAX_WRONG - 1)

(* C18, eventual outcome: from any Playing state, when the game is resumed *)
(* if paused and the player keeps guessing letters not yet guessed, with   *)
(* no reset or nextWord, the round eventually reaches Won or Lost.         *)
GuessNew == \E letter \in GuessInputs \ guessed : ~guessBlocked /\ onGuess(letter)

Resume == isPaused /\ togglePause

NextLive ==
  \/ Mount
  \/ Guess
  \/ Resume
  \/ StatusUpdate

SpecLive ==
  /\ Init
  /\ [][NextLive]_vars
  /\ WF_vars(GuessNew)
  /\ WF_vars(Resume)
  /\ WF_vars(StatusUpdate)

C18_EventuallyDecided == (status = "playing") ~> (status \in {"won", "lost"})

(* C19: in every reachable state showSidebar equals isPaused. *)
C19_SidebarIffPaused == showSidebar = isPaused

C19_Witness ==
  /\ showSidebar
  /\ isPaused
  /\ status = "playing"
  /\ wrong > 0

=============================================================================
